---- MODULE Spec2Model ----
(***************************************************************************)
(* Multi-provider meeting analysis: the provider manager                   *)
(* (server/services/aiProviders.ts), the three providers it holds, and     *)
(* the result normalizer analyzeMeetingTranscript that consumes whatever   *)
(* the manager returns.                                                    *)
(***************************************************************************)
EXTENDS Integers, Sequences, FiniteSets, TLC

(***************************************************************************)
(* Bounds of the model.                                                    *)
(***************************************************************************)
MaxTokens == 3
MaxItems == 2
MaxSpeakers == 1

(***************************************************************************)
(* JavaScript values.  Provider results are untyped (Promise<any>), so a   *)
(* raw analysis is any JSON value; k is the value's kind.                  *)
(***************************************************************************)
Undefined == [k |-> "undefined"]
Null == [k |-> "null"]
Num(n) == [k |-> "number", v |-> n]
Str(s) == [k |-> "string", v |-> s]
Arr(s) == [k |-> "array", v |-> s]
Obj(f) == [k |-> "object", v |-> f]
Bool(b) == [k |-> "boolean", v |-> b]
EmptyObj == Obj([f \in {} |-> Undefined])

IsNullish(x) == x.k \in {"undefined", "null"}

\* ToBoolean, as applied by ||, && and ?:
Truthy(x) ==
  CASE x.k \in {"undefined", "null"} -> FALSE
    [] x.k = "number" -> x.v # 0
    [] x.k = "string" -> x.v # ""
    [] x.k = "boolean" -> x.v
    [] OTHER -> TRUE

\* typeof x
TypeOf(x) ==
  CASE x.k = "undefined" -> "undefined"
    [] x.k \in {"null", "array", "object"} -> "object"
    [] OTHER -> x.k

\* Array.isArray(x)
IsArray(x) == x.k = "array"

\* x.f for a value x that is neither null nor undefined
Get(x, f) == IF x.k = "object" /\ f \in DOMAIN x.v THEN x.v[f] ELSE Undefined

\* a || b
Or(a, b) == IF Truthy(a) THEN a ELSE b

Max(a, b) == IF a >= b THEN a ELSE b

\* Math.ceil(a / b) for a >= 0, b > 0
CeilDiv(a, b) == (a + b - 1) \div b

(***************************************************************************)
(* Result normalizer: analyzeMeetingTranscript, after analyzeContent has   *)
(* returned `analysis`.  A result is [k |-> "ok", v |-> MeetingAnalysis]  *)
(* or [k |-> "threw", at |-> the statement that raised the TypeError].     *)
(***************************************************************************)
Threw(at) == [k |-> "threw", at |-> at]
Ok(v) == [k |-> "ok", v |-> v]

\* the callback of (analysis.actionItems || []).map; index is 0-based
StructureActionItem(item, index) ==
  LET isObj == TypeOf(item) = "object"
  IN Obj([id |-> Str("action-" \o ToString(index + 1)),
          task |-> IF TypeOf(item) = "string" THEN item
                   ELSE Or(Get(item, "task"), item),
          assignee |-> IF isObj THEN Or(Get(item, "assignee"), Str("Unassigned"))
                       ELSE Str("Unassigned"),
          priority |-> IF isObj THEN Or(Get(item, "priority"), Str("medium"))
                       ELSE Str("medium"),
          deadline |-> IF isObj THEN Or(Get(item, "deadline"), Null) ELSE Null,
          context |-> IF isObj THEN Or(Get(item, "context"), Str("")) ELSE Str(""),
          status |-> Str("pending")])

\* analysis.actionItems.map(...) with no `|| []`: a missing list is an error
StructureActionItemsNoDefault(analysis) ==
  IF IsNullish(analysis) THEN Threw("actionItems")
  ELSE LET src == Get(analysis, "actionItems")
       IN IF ~IsArray(src) THEN Threw("actionItems")
          ELSE IF \E i \in 1..Len(src.v) : IsNullish(src.v[i]) THEN Threw("actionItems")
          ELSE Ok(Arr([i \in 1..Len(src.v) |-> StructureActionItem(src.v[i], i - 1)]))

\* const actionItems = (analysis.actionItems || []).map(...)
StructureActionItems(analysis) ==
  IF IsNullish(analysis) THEN Threw("actionItems")
  ELSE LET src == Or(Get(analysis, "actionItems"), Arr(<<>>))
       IN IF ~IsArray(src) THEN Threw("actionItems")
          ELSE IF \E i \in 1..Len(src.v) : IsNullish(src.v[i]) THEN Threw("actionItems")
          ELSE Ok(Arr([i \in 1..Len(src.v) |-> StructureActionItem(src.v[i], i - 1)]))

\* const sentimentAnalysis = { overall: ..., timeline: ..., topicBreakdown: ... }
StructureSentiment(analysis) ==
  LET sa == Get(analysis, "sentimentAnalysis")
      os == Get(analysis, "overallSentiment")
      fromLabel == IF os = Str("positive") THEN Num(78)
                   ELSE IF os = Str("negative") THEN Num(25) ELSE Num(50)
  IN IF sa = Null THEN Threw("sentimentAnalysis")
     ELSE Ok(Obj([overall |-> IF TypeOf(sa) = "object" /\ Truthy(Get(sa, "overall"))
                              THEN Get(sa, "overall") ELSE fromLabel,
                  timeline |-> Or(Get(analysis, "sentimentTimeline"), Arr(<<>>)),
                  topicBreakdown |-> Or(Get(analysis, "topicSentiment"), Arr(<<>>))]))

\* name.split(' ').map(n => n[0]).join('') for the names of the model
Initials(name) ==
  CASE name = "John Smith" -> "JS"
    [] name = "Sarah" -> "S"
    [] OTHER -> ""

\* speaker.initials || speaker.name?.split(' ')... throws when name is
\* neither nullish nor a string (it has no split method)
SpeakerThrows(speaker) ==
  \/ IsNullish(speaker)
  \/ /\ ~Truthy(Get(speaker, "initials"))
     /\ ~IsNullish(Get(speaker, "name"))
     /\ Get(speaker, "name").k # "string"

\* the callback of (analysis.speakers || []).map
StructureSpeaker(speaker) ==
  LET name == Get(speaker, "name")
      derived == IF name.k = "string" THEN Str(Initials(name.v)) ELSE Undefined
  IN Obj([name |-> Or(name, Str("Unknown Speaker")),
          initials |-> Or(Get(speaker, "initials"), Or(derived, Str("??"))),
          speakingTime |-> Or(Get(speaker, "speakingTime"), Num(0)),
          contribution |-> Or(Get(speaker, "contribution"), Str(""))])

\* const speakerAnalysis = { speakers: ..., insights: ... }
StructureSpeakers(analysis) ==
  LET src == Or(Get(analysis, "speakers"), Arr(<<>>))
  IN IF ~IsArray(src) THEN Threw("speakers")
     ELSE IF \E i \in 1..Len(src.v) : SpeakerThrows(src.v[i]) THEN Threw("speakers")
     ELSE Ok(Obj([speakers |-> Arr([i \in 1..Len(src.v) |-> StructureSpeaker(src.v[i])]),
                  insights |-> Or(Get(analysis, "speakerInsights"),
                                  Or(Get(analysis, "speakerAnalysis"),
                                     Str("Analysis completed with available provider.")))]))

ArrayOrEmpty(x) == IF IsArray(x) THEN x ELSE Arr(<<>>)

\* the statements of analyzeMeetingTranscript between the await and the return
Normalize(analysis) ==
  LET items == StructureActionItems(analysis)
      sentiment == StructureSentiment(analysis)
      speakers == StructureSpeakers(analysis)
  IN IF items.k = "threw" THEN items
     ELSE IF sentiment.k = "threw" THEN sentiment
     ELSE IF speakers.k = "threw" THEN speakers
     ELSE Ok(Obj([summary |-> Or(Get(analysis, "summary"), Str("Meeting analysis completed.")),
                  keyPoints |-> ArrayOrEmpty(Get(analysis, "keyPoints")),
                  decisions |-> ArrayOrEmpty(Get(analysis, "decisions")),
                  nextSteps |-> ArrayOrEmpty(Get(analysis, "nextSteps")),
                  actionItems |-> items.v,
                  sentimentAnalysis |-> sentiment.v,
                  speakerAnalysis |-> speakers.v,
                  duration |-> Or(Get(analysis, "duration"), Num(45)),
                  participantCount |-> Or(Get(analysis, "participantCount"),
                                          Num(Max(1, Len(speakers.v.v.speakers.v)))),
                  overallSentiment |-> Or(Get(analysis, "overallSentiment"), Str("neutral"))]))

(***************************************************************************)
(* Transcripts.  A transcript is a sequence of tokens: words, separated by *)
(* one space, and line breaks.                                             *)
(***************************************************************************)
NL == "\n"
Vocabulary == {"action", "agreed", "good", "problem", "hello"}
Transcripts == UNION {[1..n -> Vocabulary \cup {NL}] : n \in 0..MaxTokens}

\* the whole-word forms of the four keyword patterns of LocalProvider.analyze
ActionKeywords == {"action", "todo", "followup", "nextstep", "assign", "task", "deadline", "due"}
DecisionKeywords == {"decide", "decided", "agreed", "resolved", "conclusion", "final"}
PositiveWords == {"good", "great", "excellent", "success", "agree", "positive", "happy", "satisfied"}
NegativeWords == {"bad", "terrible", "problem", "issue", "concern", "negative", "unhappy", "dissatisfied"}

\* content.split('\n'): the lines, each a sequence of words
RECURSIVE SplitLines(_)
SplitLines(c) ==
  IF c = <<>> THEN << <<>> >>
  ELSE LET rest == SplitLines(Tail(c))
       IN IF Head(c) = NL THEN << <<>> >> \o rest
          ELSE << <<Head(c)>> \o Head(rest) >> \o Tail(rest)

\* the text of a line: its words joined by single spaces
RECURSIVE LineText(_)
LineText(line) ==
  IF line = <<>> THEN ""
  ELSE IF Len(line) = 1 THEN line[1]
  ELSE line[1] \o " " \o LineText(Tail(line))

\* character offset of the j-th word of a line
RECURSIVE TokenStart(_, _)
TokenStart(line, j) == IF j = 1 THEN 0 ELSE TokenStart(line, j - 1) + Len(line[j - 1]) + 1

\* content.split(/\s+/).length
WordCount(c) ==
  IF c = <<>> THEN 1
  ELSE Cardinality({i \in 1..Len(c) : c[i] # NL})
       + (IF c[1] = NL THEN 1 ELSE 0) + (IF c[Len(c)] = NL THEN 1 ELSE 0)

\* content.split(/[.!?]+/).length; no word of the vocabulary ends a sentence
SentenceCount(c) == 1

\* regex.test(line) on a regex with the g flag: the search starts at
\* lastIndex, a match moves lastIndex past it, a failure resets it to 0
RegexTest(keywords, line, lastIndex) ==
  LET cands == {j \in 1..Len(line) : line[j] \in keywords /\ TokenStart(line, j) >= lastIndex}
  IN IF cands = {} THEN [matched |-> FALSE, lastIndex |-> 0]
     ELSE LET j == CHOOSE x \in cands : \A y \in cands : x <= y
          IN [matched |-> TRUE, lastIndex |-> TokenStart(line, j) + Len(line[j])]

\* lines.filter(line => regex.test(line)), one regex object for all the lines
RECURSIVE FilterTest(_, _, _)
FilterTest(keywords, lines, lastIndex) ==
  IF lines = <<>> THEN <<>>
  ELSE LET r == RegexTest(keywords, Head(lines), lastIndex)
       IN (IF r.matched THEN <<Head(lines)>> ELSE <<>>)
          \o FilterTest(keywords, Tail(lines), r.lastIndex)

\* lastIndex of that regex object once filter has tested every line
RECURSIVE FilterLastIndex(_, _, _)
FilterLastIndex(keywords, lines, lastIndex) ==
  IF lines = <<>> THEN lastIndex
  ELSE FilterLastIndex(keywords, Tail(lines), RegexTest(keywords, Head(lines), lastIndex).lastIndex)

\* a regex declared once outside analyze: every call goes on with the
\* object, and the lastIndex, the call before left
RegExpHoisted(previous) == previous

\* const actionKeywords = /.../gi inside analyze: evaluating a regex literal
\* makes a new RegExp object, lastIndex 0, whatever became of the object
\* the evaluation before made
RegExpLiteral(previous) == 0

\* lastIndex of the two regex objects before analyze has run at all
NoRegExp == [action |-> 0, decision |-> 0]

\* .slice(0, 5).map(line => line.trim()); the lines of the model carry no
\* surrounding blanks
FirstFiveTrimmed(lines) ==
  [i \in 1..(IF Len(lines) < 5 THEN Len(lines) ELSE 5) |-> Str(LineText(lines[i]))]

\* (content.match(regex) || []).length
CountMatches(words, c) == Cardinality({i \in 1..Len(c) : c[i] \in words})

\* a classification by the plain majority of the counts
ClassifyMajority(positiveCount, negativeCount) ==
  IF positiveCount > negativeCount THEN "positive"
  ELSE IF negativeCount > positiveCount THEN "negative"
  ELSE "neutral"

\* let overallSentiment = 'neutral'; if (...) ... else if (...) ...
ClassifySentiment(positiveCount, negativeCount) ==
  IF positiveCount > negativeCount + 2 THEN "positive"
  ELSE IF negativeCount > positiveCount + 2 THEN "negative"
  ELSE "neutral"

\* lastIndex of the two regex objects when analyze(content) returns
LocalLastIndex(content, previous) ==
  [action |-> FilterLastIndex(ActionKeywords, SplitLines(content), RegExpLiteral(previous.action)),
   decision |-> FilterLastIndex(DecisionKeywords, SplitLines(content), RegExpLiteral(previous.decision))]

\* LocalProvider.analyze(content), `previous` being the lastIndex of the
\* regex objects of the call before
LocalAnalyzeAfter(content, previous) ==
  LET words == WordCount(content)
      sentences == SentenceCount(content)
      estimatedDuration == CeilDiv(words, 150)
      actionItems == FirstFiveTrimmed(FilterTest(ActionKeywords, SplitLines(content),
                                                 RegExpLiteral(previous.action)))
      decisions == FirstFiveTrimmed(FilterTest(DecisionKeywords, SplitLines(content),
                                               RegExpLiteral(previous.decision)))
      positiveCount == CountMatches(PositiveWords, content)
      negativeCount == CountMatches(NegativeWords, content)
      overallSentiment == ClassifySentiment(positiveCount, negativeCount)
  IN Obj([summary |-> Str("Meeting transcript analyzed locally. Contains approximately "
                          \o ToString(words) \o " words and " \o ToString(sentences)
                          \o " sentences. Estimated duration: "
                          \o ToString(estimatedDuration) \o " minutes."),
          keyPoints |-> Arr(<<Str("Word count: " \o ToString(words)),
                              Str("Estimated speaking time: " \o ToString(estimatedDuration) \o " minutes"),
                              Str("Sentence count: " \o ToString(sentences)),
                              Str("Local analysis - upgrade to AI provider for detailed insights")>>),
          decisions |-> IF Len(decisions) > 0 THEN Arr(decisions)
                        ELSE Arr(<<Str("No clear decisions detected in local analysis")>>),
          nextSteps |-> IF Len(actionItems) > 0 THEN Arr(actionItems)
                        ELSE Arr(<<Str("No clear action items detected in local analysis")>>),
          actionItems |-> Arr(actionItems),
          sentimentAnalysis |-> Obj([positive |-> Num(positiveCount),
                                     negative |-> Num(negativeCount),
                                     overall |-> Str(overallSentiment)]),
          speakerAnalysis |-> Str("Speaker analysis requires AI provider"),
          duration |-> Num(estimatedDuration),
          participantCount |-> Num(Max(1, CeilDiv(words, 500))),
          overallSentiment |-> Str(overallSentiment)])

(***************************************************************************)
(* What a remote provider can resolve with: the value JSON.parse made of   *)
(* the model's reply, hence any JSON value.  Each family varies the input  *)
(* fields of one output field of the normalizer, over an object with no    *)
(* other field and over a well-formed one.                                 *)
(***************************************************************************)
SeqsUpTo(S, n) == UNION {[1..m -> S] : m \in 0..n}

\* an object with the fields of f that are not undefined
Strip(f) == Obj([x \in {y \in DOMAIN f : f[y] # Undefined} |-> f[x]])

\* the object `base` with the fields of `fields` set (or removed)
Variation(base, fields) ==
  Strip([x \in DOMAIN base \cup DOMAIN fields |->
           IF x \in DOMAIN fields THEN fields[x] ELSE base[x]])

EmptyBase == [f \in {} |-> Undefined]
FullBase ==
  [summary |-> Str("Weekly sync"),
   keyPoints |-> Arr(<<Str("Roadmap")>>),
   decisions |-> Arr(<<Str("Ship Friday")>>),
   nextSteps |-> Arr(<<Str("Retro")>>),
   actionItems |-> Arr(<<Str("Send report")>>),
   sentimentAnalysis |-> Obj([overall |-> Num(75)]),
   speakers |-> Arr(<<Obj([name |-> Str("John Smith")])>>),
   duration |-> Num(30),
   participantCount |-> Num(3),
   overallSentiment |-> Str("positive")]

ItemValues ==
  {Str("Send report"),
   Obj([task |-> Str("Fix bug"), id |-> Str("T-9"), priority |-> Str("urgent")]),
   Null}
ActionItemsValues ==
  {Undefined, Null, Str("none"), EmptyObj} \cup {Arr(s) : s \in SeqsUpTo(ItemValues, MaxItems)}
OverallValues == {Undefined, Num(75), Num(150), Num(-5), Num(0), Str("neutral")}
SentimentValues ==
  {Undefined, Null, Str("good")} \cup {Strip([overall |-> o]) : o \in OverallValues}
LabelValues == {Undefined, Str("positive"), Str("negative"), Str("neutral"), Str("mixed")}
SpeakerValues ==
  {Obj([name |-> Str("John Smith")]), EmptyObj, Null, Obj([name |-> Num(7)])}
SpeakersValues ==
  {Undefined, Str("two")} \cup {Arr(s) : s \in SeqsUpTo(SpeakerValues, MaxSpeakers)}
ParticipantValues == {Undefined, Num(0), Num(3), Num(-1), Str("many")}
ListValues == {Undefined, Arr(<<Str("Roadmap")>>), Str("Roadmap")}
SummaryValues == {Undefined, Str("Weekly sync"), Str("")}
DurationValues == {Undefined, Num(30), Num(0)}

JsonObjectsOver(base) ==
  {Variation(base, [actionItems |-> a]) : a \in ActionItemsValues}
  \cup {Variation(base, [sentimentAnalysis |-> s, overallSentiment |-> l]) :
          s \in SentimentValues, l \in LabelValues}
  \cup {Variation(base, [speakers |-> s, participantCount |-> n]) :
          s \in SpeakersValues, n \in ParticipantValues}
  \cup {Variation(base, [summary |-> s, duration |-> d]) :
          s \in SummaryValues, d \in DurationValues}
  \cup {Variation(base, [keyPoints |-> x, decisions |-> y, nextSteps |-> z]) :
          x \in ListValues, y \in ListValues, z \in ListValues}

JsonValues ==
  {Null, Num(5), Str("text"), Arr(<<>>)}
  \cup JsonObjectsOver(EmptyBase) \cup JsonObjectsOver(FullBase)

\* the replies the remote providers give in the runs of the manager
RemoteSample ==
  {Strip(FullBase), EmptyObj, Null,
   Variation(EmptyBase, [actionItems |-> Arr(<<Null>>)]),
   Variation(FullBase, [sentimentAnalysis |-> Obj([overall |-> Num(150)])]),
   Variation(FullBase, [participantCount |-> Num(-1)])}

(***************************************************************************)
(* Reply texts.  The text of a reply is a sequence of tokens: a structural *)
(* character (quote, brace, bracket, comma, colon), a blank or a line      *)
(* break, or a chunk, a run of other characters (blanks and colons may sit *)
(* inside a chunk).  A string literal is a quote, tokens, a quote.         *)
(***************************************************************************)
Quote == "\""
Blanks == {" ", NL}

\* the numbers the reply texts of the model write
Numerals == {-5, -1, 0, 1, 2, 3, 4, 5, 30, 45, 75, 150}
IsNumeral(x) == \E n \in Numerals : ToString(n) = x
NumeralValue(x) == CHOOSE n \in Numerals : ToString(n) = x

RECURSIVE SkipBlanks(_)
SkipBlanks(t) == IF t # <<>> /\ Head(t) \in Blanks THEN SkipBlanks(Tail(t)) ELSE t

\* the characters of a token sequence as one string
RECURSIVE Concat(_)
Concat(t) == IF t = <<>> THEN "" ELSE Head(t) \o Concat(Tail(t))

\* position (from 1) of the first x at or after i, 0 when there is none
Find(t, x, i) ==
  LET hits == {j \in i..Len(t) : t[j] = x}
  IN IF hits = {} THEN 0 ELSE CHOOSE j \in hits : \A h \in hits : j <= h

\* position (from 1) of the last x at or before i, 0 when there is none
FindLast(t, x, i) ==
  LET hits == {j \in 1..i : t[j] = x}
  IN IF hits = {} THEN 0 ELSE CHOOSE j \in hits : \A h \in hits : j >= h

\* s.indexOf(x), s.lastIndexOf(x): from 0, -1 when there is none
IndexOf(t, x) == Find(t, x, 1) - 1
LastIndexOf(t, x) == FindLast(t, x, Len(t)) - 1

\* s.trim()
RECURSIVE TrimEnd(_)
TrimEnd(t) == IF t # <<>> /\ t[Len(t)] \in Blanks THEN TrimEnd(SubSeq(t, 1, Len(t) - 1)) ELSE t
Trim(t) == TrimEnd(SkipBlanks(t))

(***************************************************************************)
(* JSON.parse, by recursive descent.  A parse is [ok, v, rest]: whether a  *)
(* value was read, the value, and the tokens after it.                     *)
(***************************************************************************)
NoParse == [ok |-> FALSE, v |-> Undefined, rest |-> <<>>]
Parsed(v, rest) == [ok |-> TRUE, v |-> v, rest |-> rest]

\* a string literal at the head of t: no escapes in the texts of the
\* model, and no line break inside a literal
ParseString(t) ==
  LET close == Find(t, Quote, 2)
  IN IF close = 0 \/ \E i \in 2..(close - 1) : t[i] = NL THEN NoParse
     ELSE Parsed(Str(Concat(SubSeq(t, 2, close - 1))), SubSeq(t, close + 1, Len(t)))

RECURSIVE ParseValue(_), ParseMembers(_, _), ParseElements(_, _)
ParseValue(text) ==
  LET t == SkipBlanks(text)
  IN IF t = <<>> THEN NoParse
     ELSE CASE Head(t) = "{" ->
                 LET u == SkipBlanks(Tail(t))
                 IN IF u # <<>> /\ Head(u) = "}" THEN Parsed(EmptyObj, Tail(u))
                    ELSE ParseMembers(u, [f \in {} |-> Undefined])
            [] Head(t) = "[" ->
                 LET u == SkipBlanks(Tail(t))
                 IN IF u # <<>> /\ Head(u) = "]" THEN Parsed(Arr(<<>>), Tail(u))
                    ELSE ParseElements(u, <<>>)
            [] Head(t) = Quote -> ParseString(t)
            [] Head(t) = "null" -> Parsed(Null, Tail(t))
            [] Head(t) = "true" -> Parsed(Bool(TRUE), Tail(t))
            [] Head(t) = "false" -> Parsed(Bool(FALSE), Tail(t))
            [] OTHER -> IF IsNumeral(Head(t)) THEN Parsed(Num(NumeralValue(Head(t))), Tail(t))
                        ELSE NoParse

\* the members of an object from the first key on; a later key replaces an
\* earlier equal one
ParseMembers(t, acc) ==
  IF t = <<>> \/ Head(t) # Quote THEN NoParse
  ELSE LET key == ParseString(t)
           u == SkipBlanks(key.rest)
       IN IF ~key.ok \/ u = <<>> THEN NoParse
          ELSE IF Head(u) # ":" THEN NoParse
          ELSE LET val == ParseValue(Tail(u))
                   w == SkipBlanks(val.rest)
                   fields == [x \in DOMAIN acc \cup {key.v.v} |->
                                IF x = key.v.v THEN val.v ELSE acc[x]]
               IN IF ~val.ok \/ w = <<>> THEN NoParse
                  ELSE IF Head(w) = "}" THEN Parsed(Obj(fields), Tail(w))
                  ELSE IF Head(w) = "," THEN ParseMembers(SkipBlanks(Tail(w)), fields)
                  ELSE NoParse

\* the elements of an array from the first one on
ParseElements(t, acc) ==
  LET val == ParseValue(t)
      w == SkipBlanks(val.rest)
  IN IF ~val.ok \/ w = <<>> THEN NoParse
     ELSE IF Head(w) = "]" THEN Parsed(Arr(Append(acc, val.v)), Tail(w))
     ELSE IF Head(w) = "," THEN ParseElements(Tail(w), Append(acc, val.v))
     ELSE NoParse

\* JSON.parse(text): ok is FALSE where it throws a SyntaxError
JsonParse(t) ==
  LET r == ParseValue(t)
  IN IF r.ok /\ SkipBlanks(r.rest) = <<>> THEN [ok |-> TRUE, v |-> r.v]
     ELSE [ok |-> FALSE, v |-> Undefined]

(***************************************************************************)
(* The content of a reply (choices[0].message.content): a string, held as  *)
(* Text(tokens), or any other value.                                       *)
(***************************************************************************)
Text(t) == [k |-> "text", v |-> t]
IsText(c) == c.k = "text"

\* !responseContent is false
HasContent(c) == IF IsText(c) THEN c.v # <<>> ELSE Truthy(c)

\* String(c), the conversion JSON.parse applies to its argument
ToText(c) ==
  CASE IsText(c) -> c.v
    [] c.k = "number" -> <<ToString(c.v)>>
    [] c.k = "object" -> <<"[", "object Object", "]">>
    [] OTHER -> <<c.k>>

\* .replace(/,\s*}/g, '}') and .replace(/,\s*]/g, ']'): `close` is } or ]
\* a match is a comma, blanks, then `close`; the comma and the blanks go
StripCommas(t, close) ==
  LET Matched(i, e) == /\ t[i] = "," /\ t[e] = close
                       /\ \A m \in (i + 1)..(e - 1) : t[m] \in Blanks
      kept == {j \in 1..Len(t) :
                 ~\E i \in 1..j : \E e \in (j + 1)..Len(t) :
                     Matched(i, e) /\ (j = i \/ t[j] \in Blanks)}
      Nth(n) == CHOOSE j \in kept : Cardinality({h \in kept : h <= j}) = n
  IN [n \in 1..Cardinality(kept) |-> t[Nth(n)]]

\* the second stage: cleanedContent as handed to JSON.parse
CleanContent(t) ==
  LET trimmed == Trim(t)
      firstBrace == IndexOf(trimmed, "{")
      fromBrace == IF firstBrace > 0 THEN SubSeq(trimmed, firstBrace + 1, Len(trimmed))
                   ELSE trimmed
      lastBrace == LastIndexOf(fromBrace, "}")
      toBrace == IF lastBrace > 0 THEN SubSeq(fromBrace, 1, lastBrace + 1) ELSE fromBrace
  IN StripCommas(StripCommas(toBrace, "}"), "]")

\* where the pattern "key":\s* matched at position i ends (the position of
\* the token after it), 0 when it does not match there
AfterKey(t, i, key) ==
  IF i + 3 <= Len(t) /\ t[i] = Quote /\ t[i + 1] = key /\ t[i + 2] = Quote /\ t[i + 3] = ":"
  THEN Len(t) - Len(SkipBlanks(SubSeq(t, i + 4, Len(t)))) + 1
  ELSE 0

\* responseContent.match(/"key":\s*"([^"]+)"/): the captured group of the
\* leftmost match, as [found, group]
MatchString(t, key) ==
  LET Group(i) == LET p == AfterKey(t, i, key)
                      close == Find(t, Quote, p + 1)
                  IN IF p # 0 /\ p <= Len(t) /\ t[p] = Quote /\ close > p + 1
                     THEN SubSeq(t, p + 1, close - 1) ELSE <<>>
      hits == {i \in 1..Len(t) : Group(i) # <<>>}
  IN IF hits = {} THEN [found |-> FALSE, group |-> <<>>]
     ELSE [found |-> TRUE, group |-> Group(CHOOSE i \in hits : \A j \in hits : i <= j)]

\* responseContent.match(/"key":\s*\[(.*?)\]/): the dot matches no line
\* break, and the lazy group ends at the first ]
MatchList(t, key) ==
  LET Close(i) == LET p == AfterKey(t, i, key)
                      close == Find(t, "]", p + 1)
                  IN IF p # 0 /\ p <= Len(t) /\ t[p] = "[" /\ close # 0
                        /\ \A j \in (p + 1)..(close - 1) : t[j] # NL
                     THEN close ELSE 0
      hits == {i \in 1..Len(t) : Close(i) # 0}
      first == CHOOSE i \in hits : \A j \in hits : i <= j
  IN IF hits = {} THEN [found |-> FALSE, group |-> <<>>]
     ELSE [found |-> TRUE,
           group |-> SubSeq(t, AfterKey(t, first, key) + 1, Close(first) - 1)]

\* group.split(',')
RECURSIVE SplitCommas(_)
SplitCommas(t) ==
  LET comma == Find(t, ",", 1)
  IN IF comma = 0 THEN <<t>>
     ELSE <<SubSeq(t, 1, comma - 1)>> \o SplitCommas(SubSeq(t, comma + 1, Len(t)))

\* .map(s => s.replace(/"/g, '').trim()).filter(s => s)
RECURSIVE CleanParts(_)
CleanParts(parts) ==
  IF parts = <<>> THEN <<>>
  ELSE LET part == Head(parts)
           bare == Trim(SelectSeq(part, LAMBDA x : x # Quote))
       IN (IF bare = <<>> THEN <<>> ELSE <<Str(Concat(bare))>>) \o CleanParts(Tail(parts))

\* the third stage: the object put together from the regex matches
ManualParse(t) ==
  LET summaryMatch == MatchString(t, "summary")
      keyPointsMatch == MatchList(t, "keyPoints")
      decisionsMatch == MatchList(t, "decisions")
      actionItemsMatch == MatchList(t, "actionItems")
      decisions == IF decisionsMatch.found
                   THEN Arr(CleanParts(SplitCommas(decisionsMatch.group))) ELSE Arr(<<>>)
  IN Obj([summary |-> IF summaryMatch.found THEN Str(Concat(summaryMatch.group))
                      ELSE Str("Meeting analysis completed"),
          keyPoints |-> IF keyPointsMatch.found
                        THEN Arr(CleanParts(SplitCommas(keyPointsMatch.group)))
                        ELSE Arr(<<Str("Analysis completed with available data")>>),
          decisions |-> decisions,
          nextSteps |-> decisions,
          actionItems |-> IF actionItemsMatch.found
                          THEN Arr(CleanParts(SplitCommas(actionItemsMatch.group)))
                          ELSE Arr(<<>>),
          sentimentAnalysis |-> Obj([overall |-> Num(75), positive |-> Num(5),
                                     negative |-> Num(1)]),
          speakerAnalysis |-> Str("Analysis completed with manual parsing"),
          duration |-> Num(30),
          participantCount |-> Num(4),
          overallSentiment |-> Str("positive")])

\* the object of the last catch block
FinalFallback ==
  Obj([summary |-> Str("Meeting analysis completed - JSON parsing failed"),
       keyPoints |-> Arr(<<Str("Analysis data available but parsing failed")>>),
       decisions |-> Arr(<<>>),
       nextSteps |-> Arr(<<>>),
       actionItems |-> Arr(<<>>),
       sentimentAnalysis |-> Obj([overall |-> Num(50)]),
       speakerAnalysis |-> Str("Analysis completed with Groq"),
       duration |-> Num(30),
       participantCount |-> Num(2),
       overallSentiment |-> Str("neutral")])

\* the three nested try blocks of GroqProvider.analyze on a content that
\* is not falsy: what analyze returns, and the stage that returned it.  On
\* a content that is no string, trim and match are no functions: both
\* inner blocks throw, and the last catch block returns
GroqRecover(c) ==
  LET first == JsonParse(ToText(c))
      second == JsonParse(CleanContent(c.v))
  IN IF first.ok THEN [stage |-> 1, v |-> first.v]
     ELSE IF ~IsText(c) THEN [stage |-> 4, v |-> FinalFallback]
     ELSE IF second.ok THEN [stage |-> 2, v |-> second.v]
     ELSE [stage |-> 3, v |-> ManualParse(c.v)]

(***************************************************************************)
(* The reply texts of the model.                                           *)
(***************************************************************************)
\* the text a model that answers in JSON writes for the value v: no blanks,
\* the fields in some order
RECURSIVE Render(_), RenderElements(_), RenderMembers(_, _)
Render(v) ==
  CASE v.k = "null" -> <<"null">>
    [] v.k = "number" -> <<ToString(v.v)>>
    [] v.k = "string" -> IF v.v = "" THEN <<Quote, Quote>> ELSE <<Quote, v.v, Quote>>
    [] v.k = "array" -> <<"[">> \o RenderElements(v.v) \o <<"]">>
    [] v.k = "object" -> <<"{">> \o RenderMembers(v.v, DOMAIN v.v) \o <<"}">>
RenderElements(s) ==
  IF s = <<>> THEN <<>>
  ELSE Render(Head(s)) \o (IF Len(s) > 1 THEN <<",">> \o RenderElements(Tail(s)) ELSE <<>>)
\* the members named in `names`, in the order CHOOSE takes them
RenderMembers(f, names) ==
  LET From(rest, x) ==
        <<Quote, x, Quote, ":">> \o Render(f[x])
        \o (IF rest = {x} THEN <<>> ELSE <<",">> \o RenderMembers(f, rest \ {x}))
  IN CHOOSE text \in {IF rest = {} THEN <<>> ELSE From(rest, CHOOSE y \in rest : TRUE) :
                        rest \in {names}} : TRUE

\* {"summary": "Options [a, b, ]"} and {"keyPoints":["Use {retries: 3, }"]}:
\* valid JSON whose strings hold a comma before a closing bracket or brace
BracketInString ==
  <<"{", Quote, "summary", Quote, ":", " ",
    Quote, "Options", " ", "[", "a", ",", " ", "b", ",", " ", "]", Quote, "}">>
BraceInString ==
  <<"{", Quote, "keyPoints", Quote, ":", "[",
    Quote, "Use", " ", "{", "retries: 3", ",", " ", "}", Quote, "]", "}">>

\* a reply on several lines
PrettyPrinted ==
  <<"{", NL, " ", Quote, "summary", Quote, ":", " ", Quote, "Weekly sync", Quote, ",", NL,
    " ", Quote, "decisions", Quote, ":", " ", "[", NL, " ", Quote, "Ship Friday", Quote, NL,
    " ", "]", NL, "}">>

\* valid JSON object texts
JsonTexts ==
  {Render(Strip(FullBase)), Render(EmptyObj),
   Render(Variation(EmptyBase, [actionItems |-> Arr(<<Null>>)])),
   Render(Variation(FullBase, [sentimentAnalysis |-> Obj([overall |-> Num(150)])])),
   Render(Variation(FullBase, [participantCount |-> Num(-1)])),
   BracketInString, BraceInString, PrettyPrinted}

\* the prose a model puts around its JSON
ProseBefore == {<<>>, <<"Here is the JSON:", " ">>}
ProseAfter == {<<>>, <<" ", "Hope this helps!">>}

\* texts that are no JSON: a trailing comma, a reply cut short, prose with
\* braces of its own, a refusal
BrokenTexts ==
  {<<"{", Quote, "summary", Quote, ":", Quote, "Weekly sync", Quote, ",", " ", "}">>,
   <<"{", Quote, "summary", Quote, ":", " ", Quote, "Weekly sync", Quote, ",",
     Quote, "keyPoints", Quote, ":", " ", "[", Quote, "Roadmap", Quote, ",", " ",
     Quote, "Budget", Quote, "]", ",", Quote, "actionItems", Quote, ":", "[",
     Quote, "Send report">>,
   <<"Result", " ", "{", "draft", "}", ":", " ">> \o Render(Strip(FullBase)),
   <<"I cannot analyze this transcript.">>}

\* what choices[0].message.content can be: a text, nothing, or, from an
\* API that answers otherwise than documented, another value
\* texts that are JSON, but no object: null, 5, "text", []
ScalarTexts == {<<"null">>, <<"5">>, <<Quote, "text", Quote>>, <<"[", "]">>}

ReplyTexts ==
  {pre \o j \o post : pre \in ProseBefore, j \in JsonTexts, post \in ProseAfter}
  \cup BrokenTexts \cup ScalarTexts \cup {<<>>}

\* message.content that is no text: absent, null, or a content part
NoContents == {Undefined, Null}
ContentPart == Obj([type |-> Str("text")])

(***************************************************************************)
(* Values a provider's analyze can reject with, as the catch block of      *)
(* analyzeContent sees them: status and code (0 and "" when absent) and    *)
(* message ("absent" when the value has no string message, "quota" when    *)
(* the message contains that word).                                        *)
(***************************************************************************)
Thrown(status, code, message) ==
  [nullish |-> FALSE, status |-> status, code |-> code, message |-> message]
ThrownNullish == [nullish |-> TRUE, status |-> 0, code |-> "", message |-> "absent"]

\* GroqProvider.analyze throws Error objects only: a failed fetch, a
\* non-2xx status (the API's message is part of the text), an unreadable
\* body, no content
GroqRejections == {Thrown(0, "", "plain"), Thrown(0, "", "quota")}

\* OpenAIProvider.analyze: the SDK's API errors, a connection error, and
\* the SyntaxError of JSON.parse
OpenAIRejections ==
  {Thrown(429, "insufficient_quota", "quota"), Thrown(429, "rate_limit_exceeded", "plain"),
   Thrown(401, "invalid_api_key", "plain"), Thrown(0, "", "plain")}

\* AIProvider.analyze is Promise<any>: an implementation may reject with
\* any value, such as a string, a bare object, or undefined
InterfaceRejections ==
  GroqRejections \cup OpenAIRejections
  \cup {Thrown(0, "", "absent"), Thrown(500, "", "absent"), Thrown(429, "", "absent"),
        ThrownNullish}

\* a catch block that goes on after quota errors only and rethrows the rest
CatchRethrowsOthers(e) ==
  \/ e.nullish
  \/ /\ e.status # 429
     /\ e.code # "insufficient_quota"
     /\ e.message # "quota"

\* the catch block of analyzeContent raises a TypeError itself when it
\* reads error.message of a nullish value or calls includes on a missing
\* message
CatchThrows(e) ==
  \/ e.nullish
  \/ /\ e.status # 429
     /\ e.code # "insufficient_quota"
     /\ e.message = "absent"

(***************************************************************************)
(* State.                                                                  *)
(*   env        which credentials process.env holds                        *)
(*   contract   "builtin": the three providers of the source; "interface": *)
(*              the remote slots hold arbitrary AIProvider implementations *)
(*   pc         position of the analyzeMeetingTranscript call in progress  *)
(*   content    its argument                                               *)
(*   idx        the provider the loop of analyzeContent is at              *)
(*   calls      analyze invocations per provider in this call              *)
(*   failed     providers whose analyze rejected in this call              *)
(*   outcome    how analyzeContent settled                                 *)
(*   normalized how analyzeMeetingTranscript settled                       *)
(*   avail      what isAvailable returned for each provider in this call   *)
(*   requests   network requests issued in this call                       *)
(*   reply      the HTTP reply a remote provider's analyze received        *)
(*   meetings   the meetings map of the storage: the record of id i is     *)
(*              meetings[i]                                                *)
(*   current    id of the meeting processTranscriptAsync is working on, 0  *)
(*              when none is                                               *)
(*   aiStatus   the last response of GET /api/ai-status                    *)
(*   lastIndex  lastIndex of the two RegExp objects LocalProvider.analyze  *)
(*              last tested lines with                                     *)
(*   earlier    one earlier direct call of LocalProvider.analyze, kept for *)
(*              comparison: its transcript and its result                  *)
(*   storage    the class behind `storage`: "MemStorage" (storage.ts) or   *)
(*              "DatabaseStorage" (part_012)                               *)
(*   issued     the UPDATE a DatabaseStorage.updateMeeting has sent and    *)
(*              the database has not executed yet                          *)
(*   response   the response of the upload route the client received last  *)
(*   observed   the processingStatus the client read last after it         *)
(*   users      the stored users, in the order of their creation           *)
(*   reg        the /api/auth/register requests: position, body, status    *)
(*   providers  the providers array of the shared manager, by name        *)
(*   loops      the concurrent analyzeContent calls on the shared manager: *)
(*              position, loop index, providers invoked so far, and what   *)
(*              getAvailableProvider returned to the caller last           *)
(***************************************************************************)
VARIABLES env, contract, pc, content, idx, calls, failed, outcome, normalized,
          avail, requests, reply, meetings, current, aiStatus, earlier, lastIndex,
          storage, issued, response, observed, users, reg, providers, loops

vars == <<env, contract, pc, content, idx, calls, failed, outcome, normalized,
          avail, requests, reply, meetings, current, aiStatus, earlier, lastIndex,
          storage, issued, response, observed, users, reg, providers, loops>>

\* the state of the request handlers and of the shared manager
server == <<storage, issued, response, observed, users, reg, providers, loops>>

\* the state that outlives a call of analyzeMeetingTranscript
outside == <<meetings, current, aiStatus, earlier, lastIndex>>

\* private providers: AIProvider[] = [Groq, OpenAI, Local]
Providers == <<"Groq", "OpenAI", "Local">>

None == [k |-> "none"]
\* throw new Error('All AI providers failed or are unavailable')
TerminalError == "All AI providers failed or are unavailable"
Resolved(i, v) == [k |-> "resolved", by |-> i, v |-> v]
Rejected(e) == [k |-> "rejected", error |-> e]

\* a Local provider that reports itself unavailable
IsAvailableNoFallback(p) ==
  CASE p = "Groq" -> env.GROQ_API_KEY
    [] p = "OpenAI" -> env.OPENAI_API_KEY
    [] p = "Local" -> FALSE

\* provider.isAvailable()
IsAvailable(p) ==
  CASE p = "Groq" -> env.GROQ_API_KEY
    [] p = "OpenAI" -> env.OPENAI_API_KEY
    [] p = "Local" -> TRUE

\* an isAvailable that asks the provider's API whether the key works
IsAvailablePings(p) == IF p = "Local" THEN 0 ELSE 1

\* network requests provider.isAvailable() makes: it reads process.env only
IsAvailableRequests(p) == 0

\* network requests provider.analyze(content) starts with: the POST of
\* fetch or of client.chat.completions.create
AnalyzeRequests(p) == IF p = "Local" THEN 0 ELSE 1

\* LocalProvider.analyze(content) called now
LocalAnalyze(c) == LocalAnalyzeAfter(c, lastIndex)

\* the values provider.analyze(content) can resolve with
Resolutions(p, c) ==
  CASE p = "Groq" -> RemoteSample
    [] p = "OpenAI" -> RemoteSample
    [] p = "Local" -> {LocalAnalyze(c)}

\* the values provider.analyze(content) can reject with
Rejections(p) ==
  CASE p = "Groq" -> IF contract = "interface" THEN InterfaceRejections ELSE GroqRejections
    [] p = "OpenAI" -> IF contract = "interface" THEN InterfaceRejections ELSE OpenAIRejections
    [] p = "Local" -> {}

\* what await fetch(...) or await client.chat.completions.create(...) ends
\* with: an error (of the network, of the status, of the body) or a body
\* with a content
ErrorReply(e) == [k |-> "error", error |-> e]
OkReply(c) == [k |-> "ok", content |-> c]

\* GroqProvider.analyze from the reply on
GroqAnalyze(r) ==
  IF r.k = "error" THEN [k |-> "rejected", error |-> r.error]
  ELSE IF ~HasContent(r.content) THEN [k |-> "rejected", error |-> Thrown(0, "", "plain")]
  ELSE [k |-> "resolved", v |-> GroqRecover(r.content).v]

\* OpenAIProvider.analyze from the reply on:
\* JSON.parse(response.choices[0].message.content || '{}')
OpenAIAnalyze(r) ==
  IF r.k = "error" THEN [k |-> "rejected", error |-> r.error]
  ELSE LET parsed == JsonParse(IF HasContent(r.content) THEN ToText(r.content)
                               ELSE <<"{", "}">>)
       IN IF parsed.ok THEN [k |-> "resolved", v |-> parsed.v]
          ELSE [k |-> "rejected", error |-> Thrown(0, "", "plain")]

Envs == [GROQ_API_KEY : BOOLEAN, OPENAI_API_KEY : BOOLEAN]

InitCall ==
  /\ pc = "idle"
  /\ content = <<>>
  /\ idx = 0
  /\ calls = [i \in 1..Len(Providers) |-> 0]
  /\ failed = {}
  /\ outcome = None
  /\ normalized = None
  /\ avail = [i \in 1..Len(Providers) |-> "unasked"]
  /\ requests = 0
  /\ reply = None

\* the register requests and the analyzeContent calls on the shared manager
Requests == 1..2
Calls == 1..2

\* a request that has not arrived, a call that has not been made
IdleRequest == [pc |-> "idle", username |-> "", email |-> "", status |-> 0]
IdleLoop == [pc |-> "idle", idx |-> 0, tried |-> <<>>, got |-> ""]

\* no request handled yet, no user stored, the manager as constructed
InitHandlers ==
  /\ issued = None
  /\ response = None
  /\ observed = "unread"
  /\ users = <<>>
  /\ reg = [r \in Requests |-> IdleRequest]
  /\ providers = Providers
  /\ loops = [c \in Calls |-> IdleLoop]

\* export const storage = new MemStorage()
InitServer == storage = "MemStorage" /\ InitHandlers

\* no meeting uploaded yet
InitProcess ==
  /\ meetings = <<>>
  /\ current = 0
  /\ aiStatus = None
  /\ lastIndex = NoRegExp
  /\ earlier = None

\* a process that has served no request yet
InitOutside == InitProcess /\ InitServer

Init == env \in Envs /\ contract = "builtin" /\ InitCall /\ InitOutside

\* analyzeMeetingTranscript(content) up to the first await of analyzeContent
StartAnalysis ==
  /\ pc = "idle"
  /\ \E c \in Transcripts : content' = c
  /\ idx' = 1
  /\ calls' = [i \in 1..Len(Providers) |-> 0]
  /\ failed' = {}
  /\ outcome' = None
  /\ normalized' = None
  /\ avail' = [i \in 1..Len(Providers) |-> "unasked"]
  /\ requests' = 0
  /\ reply' = None
  /\ pc' = "checking"
  /\ UNCHANGED <<env, contract>>
  /\ UNCHANGED outside
  /\ UNCHANGED server

\* the for loop moves past provider idx; after the last one it throws
Advance ==
  IF idx < Len(Providers)
  THEN idx' = idx + 1 /\ pc' = "checking" /\ UNCHANGED outcome
  ELSE outcome' = Rejected(TerminalError)
       /\ pc' = "settled" /\ UNCHANGED idx

\* a loop that calls analyze whatever isAvailable answered
CheckAvailableIgnored ==
  /\ pc = "checking"
  /\ avail' = [avail EXCEPT ![idx] = IF IsAvailable(Providers[idx]) THEN "yes" ELSE "no"]
  /\ calls' = [calls EXCEPT ![idx] = @ + 1]
  /\ requests' = requests + IsAvailableRequests(Providers[idx]) + AnalyzeRequests(Providers[idx])
  /\ pc' = "analyzing"
  /\ UNCHANGED <<env, contract, content, idx, failed, outcome, normalized, reply>>
  /\ UNCHANGED <<meetings, current, aiStatus, earlier, lastIndex>>
  /\ UNCHANGED server

\* if (await provider.isAvailable()) { ... provider.analyze(content)
CheckAvailable ==
  /\ pc = "checking"
  /\ IF IsAvailable(Providers[idx])
     THEN /\ avail' = [avail EXCEPT ![idx] = "yes"]
          /\ calls' = [calls EXCEPT ![idx] = @ + 1]
          /\ requests' = requests + IsAvailableRequests(Providers[idx])
                                  + AnalyzeRequests(Providers[idx])
          /\ pc' = "analyzing"
          /\ UNCHANGED <<idx, outcome>>
     ELSE /\ avail' = [avail EXCEPT ![idx] = "no"]
          /\ requests' = requests + IsAvailableRequests(Providers[idx])
          /\ Advance
          /\ UNCHANGED calls
  /\ UNCHANGED <<env, contract, content, failed, normalized, reply>>
  /\ UNCHANGED outside
  /\ UNCHANGED server

\* a loop that keeps the result but does not return: it goes on to the
\* next provider
AnalyzeResolvesNoReturn ==
  /\ pc = "analyzing"
  /\ \E v \in Resolutions(Providers[idx], content) : outcome' = Resolved(idx, v)
  /\ IF idx < Len(Providers)
     THEN idx' = idx + 1 /\ pc' = "checking"
     ELSE pc' = "settled" /\ UNCHANGED idx
  /\ lastIndex' = IF Providers[idx] = "Local" THEN LocalLastIndex(content, lastIndex)
                  ELSE lastIndex
  /\ UNCHANGED <<env, contract, content, calls, failed, normalized, avail, requests, reply>>
  /\ UNCHANGED <<meetings, current, aiStatus, earlier>>
  /\ UNCHANGED server

\* return await provider.analyze(content), analyze resolving
AnalyzeResolves ==
  /\ pc = "analyzing"
  /\ \E v \in Resolutions(Providers[idx], content) : outcome' = Resolved(idx, v)
  /\ pc' = "settled"
  /\ lastIndex' = IF Providers[idx] = "Local" THEN LocalLastIndex(content, lastIndex)
                  ELSE lastIndex
  /\ UNCHANGED <<env, contract, content, idx, calls, failed, normalized, avail, requests, reply>>
  /\ UNCHANGED <<meetings, current, aiStatus, earlier>>
  /\ UNCHANGED server

\* a catch block that tries the same provider again after a quota error
AnalyzeRejectsRetry ==
  /\ pc = "analyzing"
  /\ \E e \in Rejections(Providers[idx]) :
       IF CatchThrows(e)
       THEN outcome' = Rejected("TypeError") /\ pc' = "settled" /\ UNCHANGED idx
       ELSE IF e.status = 429 \/ e.message = "quota"
       THEN pc' = "checking" /\ UNCHANGED <<idx, outcome>>
       ELSE Advance
  /\ failed' = failed \cup {idx}
  /\ UNCHANGED <<env, contract, content, calls, normalized, avail, requests, reply>>
  /\ UNCHANGED outside
  /\ UNCHANGED server

\* analyze rejecting: the catch block, then continue
AnalyzeRejects ==
  /\ pc = "analyzing"
  /\ \E e \in Rejections(Providers[idx]) :
       IF CatchThrows(e)
       THEN outcome' = Rejected("TypeError") /\ pc' = "settled" /\ UNCHANGED idx
       ELSE Advance
  /\ failed' = failed \cup {idx}
  /\ UNCHANGED <<env, contract, content, calls, normalized, avail, requests, reply>>
  /\ UNCHANGED outside
  /\ UNCHANGED server

\* analyzeMeetingTranscript resumed after `await aiManager.analyzeContent`:
\* it normalizes the analysis and returns, or rethrows from its catch block
Resume ==
  /\ pc = "settled"
  /\ normalized' = IF outcome.k = "rejected" THEN [k |-> "rejected", at |-> "analyzeContent"]
                   ELSE LET r == Normalize(outcome.v)
                        IN IF r.k = "threw" THEN [k |-> "rejected", at |-> r.at]
                           ELSE [k |-> "resolved", v |-> r.v]
  /\ pc' = "done"
  /\ UNCHANGED <<env, contract, content, idx, calls, failed, outcome, avail, requests, reply>>
  /\ UNCHANGED outside
  /\ UNCHANGED server

\* the caller has taken the settled result; the call's frame is gone, and
\* so are the RegExp objects analyze made
Return ==
  /\ pc = "done"
  /\ pc' = "idle"
  /\ content' = <<>>
  /\ idx' = 0
  /\ calls' = [i \in 1..Len(Providers) |-> 0]
  /\ failed' = {}
  /\ outcome' = None
  /\ normalized' = None
  /\ avail' = [i \in 1..Len(Providers) |-> "unasked"]
  /\ requests' = 0
  /\ reply' = None
  /\ lastIndex' = NoRegExp
  /\ UNCHANGED <<env, contract, meetings, current, aiStatus, earlier>>
  /\ UNCHANGED server

Next ==
  StartAnalysis \/ CheckAvailable \/ AnalyzeResolves \/ AnalyzeRejects \/ Resume \/ Return

Spec == Init /\ [][Next]_vars

\* the same program with the remote slots held to the AIProvider interface only
InitInterface == env \in Envs /\ contract = "interface" /\ InitCall /\ InitOutside

SpecInterface == InitInterface /\ [][Next]_vars

\* the normalizer on every raw analysis: the states in which analyzeContent
\* has just resolved, by Groq with any JSON value or by Local
InitNormalizer ==
  /\ InitOutside
  /\ contract = "builtin"
  /\ pc = "settled"
  /\ failed = {}
  /\ normalized = None
  /\ reply = None
  /\ \/ /\ env = [GROQ_API_KEY |-> TRUE, OPENAI_API_KEY |-> FALSE]
        /\ content = <<>>
        /\ idx = 1
        /\ calls = [i \in 1..Len(Providers) |-> IF i = 1 THEN 1 ELSE 0]
        /\ avail = [i \in 1..Len(Providers) |-> IF i = 1 THEN "yes" ELSE "unasked"]
        /\ requests = 1
        /\ \E v \in JsonValues : outcome = Resolved(1, v)
     \/ /\ env = [GROQ_API_KEY |-> FALSE, OPENAI_API_KEY |-> FALSE]
        /\ content \in Transcripts
        /\ idx = 3
        /\ calls = [i \in 1..Len(Providers) |-> IF i = 3 THEN 1 ELSE 0]
        /\ avail = [i \in 1..Len(Providers) |-> IF i = 3 THEN "yes" ELSE "no"]
        /\ requests = 0
        /\ outcome = Resolved(3, LocalAnalyze(content))

NextNormalizer == Resume

SpecNormalizer == InitNormalizer /\ [][NextNormalizer]_vars

(***************************************************************************)
(* The remote adapters from the reply on, inside one analysis of a fixed   *)
(* transcript.                                                             *)
(***************************************************************************)
\* analyzeContent from the reply r of provider idx on: a is how the
\* provider's analyze settles, then the return or the catch block
ReplyArrives(r) ==
  \E a \in {IF Providers[idx] = "Groq" THEN GroqAnalyze(r) ELSE OpenAIAnalyze(r)} :
     /\ reply' = [by |-> idx, r |-> r]
     /\ IF a.k = "resolved"
        THEN outcome' = Resolved(idx, a.v) /\ pc' = "settled" /\ UNCHANGED <<idx, failed>>
        ELSE /\ failed' = failed \cup {idx}
             /\ IF CatchThrows(a.error)
                THEN outcome' = Rejected("TypeError") /\ pc' = "settled" /\ UNCHANGED idx
                ELSE Advance

\* the reply of the remote provider idx arrives: an error status, a 2xx
\* with a text, with no content, or with a content that is no string
RemoteReply ==
  /\ pc = "analyzing"
  /\ Providers[idx] # "Local"
  /\ \/ \E e \in Rejections(Providers[idx]) : ReplyArrives(ErrorReply(e))
     \/ \E t \in ReplyTexts : ReplyArrives(OkReply(Text(t)))
     \/ \E c \in NoContents : ReplyArrives(OkReply(c))
     \/ ReplyArrives(OkReply(ContentPart))
  /\ UNCHANGED <<env, contract, content, calls, normalized, avail, requests>>
  /\ UNCHANGED outside
  /\ UNCHANGED server

\* LocalProvider.analyze returning
LocalResolves == AnalyzeResolves /\ Providers[idx] = "Local"

\* analyzeMeetingTranscript(<<"hello">>) at the first await of analyzeContent
InitAdapters ==
  /\ env \in Envs
  /\ contract = "builtin"
  /\ InitOutside
  /\ pc = "checking"
  /\ content = <<"hello">>
  /\ idx = 1
  /\ calls = [i \in 1..Len(Providers) |-> 0]
  /\ failed = {}
  /\ outcome = None
  /\ normalized = None
  /\ avail = [i \in 1..Len(Providers) |-> "unasked"]
  /\ requests = 0
  /\ reply = None

NextAdapters == CheckAvailable \/ RemoteReply \/ LocalResolves \/ Resume

SpecAdapters == InitAdapters /\ [][NextAdapters]_vars

(***************************************************************************)
(* LocalProvider.analyze called directly, one call after the other.        *)
(***************************************************************************)
\* the transcripts of the direct calls: keywords only, one token shorter
DirectTranscripts == UNION {[1..n -> {"action", "agreed", NL}] : n \in 0..(MaxTokens - 1)}

\* localProvider.analyze(c), which awaits nothing, from call to return
LocalCall ==
  /\ pc = "idle"
  /\ \E c \in DirectTranscripts :
       /\ content' = c
       /\ outcome' = Resolved(Len(Providers), LocalAnalyze(c))
       /\ lastIndex' = LocalLastIndex(c, lastIndex)
  /\ earlier' \in {earlier} \cup (IF outcome = None THEN {}
                                   ELSE {[content |-> content, v |-> outcome.v]})
  /\ UNCHANGED <<env, contract, pc, idx, calls, failed, normalized, avail, requests, reply>>
  /\ UNCHANGED <<meetings, current, aiStatus>>
  /\ UNCHANGED server

InitLocal ==
  /\ env = [GROQ_API_KEY |-> FALSE, OPENAI_API_KEY |-> FALSE]
  /\ contract = "builtin"
  /\ InitCall
  /\ InitOutside

NextLocal == LocalCall

SpecLocal == InitLocal /\ [][NextLocal]_vars

(***************************************************************************)
(* Meetings: the storage, the upload route and processTranscriptAsync.     *)
(* One upload is in progress at a time.                                    *)
(***************************************************************************)
MaxMeetings == 2

\* the transcripts the uploads of the model carry
Uploads == {<<"hello">>, <<"action">>, <<"agreed", NL, "good">>}

\* the analysis columns of a meeting
AnalysisFields ==
  {"summary", "keyPoints", "decisions", "nextSteps", "actionItems", "sentimentAnalysis",
   "speakerAnalysis", "duration", "participantCount", "overallSentiment"}

\* the record MemStorage.createMeeting stores under a new id
NewMeeting(id, c) ==
  [f \in {"id", "content", "processingStatus"} \cup AnalysisFields |->
     CASE f = "id" -> Num(id)
       [] f = "content" -> Str(LineText(c))
       [] f = "processingStatus" -> Str("pending")
       [] OTHER -> Null]

\* MemStorage.updateMeeting(id, updates): { ...meeting, ...updates } in one
\* assignment, nothing when the id is unknown
UpdateMeeting(store, id, updates) ==
  IF id \notin DOMAIN store THEN store
  ELSE [store EXCEPT ![id] = [f \in DOMAIN @ \cup DOMAIN updates |->
                                IF f \in DOMAIN updates THEN updates[f] ELSE @[f]]]

\* an update that leaves the status as it is
UpdateDataNoStatus(analysis) ==
  [f \in AnalysisFields |-> Get(analysis, f)]

\* const updateData = { processingStatus: "completed", summary: ..., ... }
UpdateData(analysis) ==
  [f \in {"processingStatus"} \cup AnalysisFields |->
     IF f = "processingStatus" THEN Str("completed") ELSE Get(analysis, f)]

\* the catch block giving the meeting back to the queue
FailureUpdateRetry == [processingStatus |-> Str("pending")]

\* the update of the catch block: { processingStatus: "failed" }
FailureUpdate == [processingStatus |-> Str("failed")]

\* console.log(..., { summary: analysis.summary?.substring(0, 100), ... })
\* raises a TypeError when summary is neither nullish nor a string
LogThrows(analysis) ==
  LET summary == Get(analysis, "summary")
  IN ~IsNullish(summary) /\ TypeOf(summary) # "string"

\* POST /api/meetings/upload up to `await storage.createMeeting`
CreateMeeting ==
  /\ pc = "idle"
  /\ current = 0
  /\ Len(meetings) < MaxMeetings
  /\ \E c \in Uploads :
       /\ meetings' = Append(meetings, NewMeeting(Len(meetings) + 1, c))
       /\ content' = c
  /\ current' = Len(meetings) + 1
  /\ pc' = "created"
  /\ UNCHANGED <<env, contract, idx, calls, failed, outcome, normalized, avail, requests, reply>>
  /\ UNCHANGED <<aiStatus, earlier, lastIndex>>
  /\ UNCHANGED server

\* an update of the status that names no meeting: every record becomes
\* "processing"
StartProcessingAll ==
  /\ pc = "created"
  /\ meetings' = [i \in DOMAIN meetings |->
                    [meetings[i] EXCEPT !.processingStatus = Str("processing")]]
  /\ pc' = "processing"
  /\ UNCHANGED <<env, contract, content, idx, calls, failed, outcome, normalized,
                 avail, requests, reply>>
  /\ UNCHANGED <<current, aiStatus, earlier, lastIndex>>
  /\ UNCHANGED server

\* the route goes on: processTranscriptAsync(meeting.id, content) runs up to
\* its first await, and the response says "processing"
StartProcessing ==
  /\ pc = "created"
  /\ meetings' = UpdateMeeting(meetings, current, [processingStatus |-> Str("processing")])
  /\ pc' = "processing"
  /\ UNCHANGED <<env, contract, content, idx, calls, failed, outcome, normalized,
                 avail, requests, reply>>
  /\ UNCHANGED <<current, aiStatus, earlier, lastIndex>>
  /\ UNCHANGED server

\* processTranscriptAsync goes on: analyzeMeetingTranscript(content) up to
\* the first await of analyzeContent
BeginAnalysis ==
  /\ pc = "processing"
  /\ idx' = 1
  /\ pc' = "checking"
  /\ UNCHANGED <<env, contract, content, calls, failed, outcome, normalized,
                 avail, requests, reply>>
  /\ UNCHANGED outside
  /\ UNCHANGED server

\* the call frame of processTranscriptAsync goes
EndProcessing ==
  /\ pc' = "idle"
  /\ current' = 0
  /\ content' = <<>>
  /\ idx' = 0
  /\ calls' = [i \in 1..Len(Providers) |-> 0]
  /\ failed' = {}
  /\ outcome' = None
  /\ normalized' = None
  /\ avail' = [i \in 1..Len(Providers) |-> "unasked"]
  /\ requests' = 0
  /\ reply' = None
  /\ lastIndex' = NoRegExp

\* analyzeMeetingTranscript resolved: updateData, the log line, and
\* updateMeeting(meetingId, updateData); a TypeError of the log line goes
\* to the catch block
Complete ==
  /\ pc = "done"
  /\ current # 0
  /\ normalized.k = "resolved"
  /\ meetings' = IF LogThrows(normalized.v)
                 THEN UpdateMeeting(meetings, current, FailureUpdate)
                 ELSE UpdateMeeting(meetings, current, UpdateData(normalized.v))
  /\ EndProcessing
  /\ UNCHANGED <<env, contract, aiStatus, earlier>>
  /\ UNCHANGED server

\* analyzeMeetingTranscript rejected: the catch block
Fail ==
  /\ pc = "done"
  /\ current # 0
  /\ normalized.k = "rejected"
  /\ meetings' = UpdateMeeting(meetings, current, FailureUpdate)
  /\ EndProcessing
  /\ UNCHANGED <<env, contract, aiStatus, earlier>>
  /\ UNCHANGED server

\* a loop that keeps the last available provider it meets
RECURSIVE GetAvailableProviderLast(_)
GetAvailableProviderLast(i) ==
  IF i > Len(Providers) THEN Providers[Len(Providers)]
  ELSE IF i < Len(Providers) /\ IsAvailable(Providers[i])
          /\ \A j \in (i + 1)..(Len(Providers) - 1) : ~IsAvailable(Providers[j])
       THEN Providers[i]
       ELSE GetAvailableProviderLast(i + 1)

\* the loop of getAvailableProvider from the i-th provider on, and the
\* return after it
RECURSIVE GetAvailableProviderFrom(_)
GetAvailableProviderFrom(i) ==
  IF i > Len(Providers) THEN Providers[Len(Providers)]
  ELSE IF IsAvailable(Providers[i]) THEN Providers[i]
  ELSE GetAvailableProviderFrom(i + 1)

\* aiManager.getAvailableProvider(), by name
GetAvailableProvider == GetAvailableProviderFrom(1)

\* the network requests of that loop
RECURSIVE GetAvailableProviderRequests(_)
GetAvailableProviderRequests(i) ==
  IF i > Len(Providers) THEN 0
  ELSE IsAvailableRequests(Providers[i])
       + (IF IsAvailable(Providers[i]) THEN 0 ELSE GetAvailableProviderRequests(i + 1))

\* GET /api/ai-status: a new manager, getAvailableProvider, the response
AiStatus ==
  /\ aiStatus' = [currentProvider |-> GetAvailableProvider,
                  status |-> IF GetAvailableProvider = "Local" THEN "limited" ELSE "full"]
  /\ requests' = requests + GetAvailableProviderRequests(1)
  /\ UNCHANGED <<env, contract, pc, content, idx, calls, failed, outcome, normalized,
                 avail, reply>>
  /\ UNCHANGED <<meetings, current, lastIndex, earlier>>
  /\ UNCHANGED server

NextMeeting ==
  \/ CreateMeeting \/ StartProcessing \/ BeginAnalysis
  \/ CheckAvailable \/ AnalyzeResolves \/ AnalyzeRejects \/ Resume
  \/ Complete \/ Fail \/ AiStatus

SpecMeeting == Init /\ [][NextMeeting]_vars

\* what the event loop of Node guarantees: a continuation that is ready
\* runs, and LocalProvider.analyze, which awaits nothing, returns.  Nothing
\* makes the reply of a remote provider arrive.
Fairness ==
  /\ WF_vars(StartProcessing) /\ WF_vars(BeginAnalysis) /\ WF_vars(CheckAvailable)
  /\ WF_vars(AnalyzeResolves /\ Providers[idx] = "Local")
  /\ WF_vars(Resume) /\ WF_vars(Complete) /\ WF_vars(Fail)

SpecLive == Init /\ [][NextMeeting]_vars /\ Fairness

(***************************************************************************)
(* Properties of analyzeContent.                                           *)
(***************************************************************************)
Settled == pc \in {"settled", "done"}
ProviderIds == 1..Len(Providers)

\* C1: with the three providers of the source, whatever the transcript, the
\* credentials and the failures of the remote providers, analyzeContent
\* never rejects, and once settled it has resolved with the result of a
\* provider it invoked.
C1_AlwaysResolves ==
  /\ outcome.k # "rejected"
  /\ Settled => /\ outcome.k = "resolved"
                /\ outcome.by \in ProviderIds
                /\ calls[outcome.by] = 1
                /\ outcome.v \in Resolutions(Providers[outcome.by], content)

\* both remote providers were configured and failed, and Local answered
C1_Witness ==
  /\ pc = "done"
  /\ env.GROQ_API_KEY /\ env.OPENAI_API_KEY
  /\ failed = {1, 2}
  /\ outcome.k = "resolved" /\ outcome.by = 3

\* C2: once a provider's analyze has succeeded its result is the result of
\* the call, that provider was invoked once, and no provider later in the
\* list has been invoked in this call (its call count is 0).
C2_PriorityOrdering ==
  outcome.k = "resolved" =>
    /\ calls[outcome.by] = 1
    /\ \A j \in ProviderIds : j > outcome.by => calls[j] = 0

\* Groq succeeded while OpenAI was configured too, and the call has returned
C2_Witness ==
  /\ pc = "done"
  /\ env.GROQ_API_KEY /\ env.OPENAI_API_KEY
  /\ outcome.k = "resolved" /\ outcome.by = 1
  /\ calls = <<1, 0, 0>>

C4_RejectsOnlyWhenAllFailed ==
  Settled =>
    /\ outcome.k = "rejected" <=>
         \A i \in ProviderIds : ~IsAvailable(Providers[i]) \/ i \in failed
    /\ outcome.k = "rejected" =>
         /\ outcome.error = TerminalError
         /\ \A i \in ProviderIds : IsAvailable(Providers[i]) => calls[i] = 1

\* every remote provider failed and the call still did not reject
C4_Witness ==
  /\ Settled
  /\ failed = {1, 2}
  /\ calls = <<1, 1, 1>>
  /\ outcome.k # "rejected"

(***************************************************************************)
(* Properties of the normalizer.                                           *)
(***************************************************************************)
Returned == pc = "done" /\ normalized.k = "resolved"
NoCredentials == ~env.GROQ_API_KEY /\ ~env.OPENAI_API_KEY

\* ids action-1, action-2, ... in order
SequentialIds(items) ==
  \A i \in 1..Len(items) : Get(items[i], "id") = Str("action-" \o ToString(i))

InRange(x) == x.k = "number" /\ x.v >= 0 /\ x.v <= 100

\* C5: with no credentials, for every transcript, analyzeMeetingTranscript
\* returns an analysis whose sentimentAnalysis.overall is a number in
\* [0,100], whose participantCount is at least 1 and whose action item ids
\* are action-1, action-2, ... .
C5_FallbackCompleteness ==
  (pc = "done" /\ NoCredentials) =>
    /\ normalized.k = "resolved"
    /\ InRange(Get(Get(normalized.v, "sentimentAnalysis"), "overall"))
    /\ Get(normalized.v, "participantCount").k = "number"
    /\ Get(normalized.v, "participantCount").v >= 1
    /\ SequentialIds(Get(normalized.v, "actionItems").v)

\* C6: whatever raw analysis a provider returned, the normalized
\* sentimentAnalysis.overall is a number in [0,100].
C6_OverallClamped ==
  Returned => InRange(Get(Get(normalized.v, "sentimentAnalysis"), "overall"))

\* C7: whatever raw analysis a provider returned, the normalizer does not
\* throw: analyzeMeetingTranscript returns an analysis.
C7_NormalizerNeverThrows ==
  (pc = "done" /\ outcome.k = "resolved") => normalized.k = "resolved"

\* the raw analysis has field f and it is an array
HasArray(raw, f) == raw.k = "object" /\ f \in DOMAIN raw.v /\ raw.v[f].k = "array"

\* C8: for a raw actionItems array of length n the normalizer builds n
\* action items, in the order of the raw list, with the ids action-1 ..
\* action-n whatever id the provider gave, a string item being the task.
C8_SequentialIds ==
  (pc = "done" /\ outcome.k = "resolved" /\ HasArray(outcome.v, "actionItems")) =>
    LET src == outcome.v.v.actionItems.v
    IN /\ normalized.k = "rejected" => normalized.at # "actionItems"
       /\ normalized.k = "resolved" =>
            LET items == Get(normalized.v, "actionItems").v
            IN /\ Len(items) = Len(src)
               /\ SequentialIds(items)
               /\ \A i \in 1..Len(src) :
                    src[i].k = "string" => Get(items[i], "task") = src[i]

\* C9: the normalized participantCount is a number, at least 1, and when
\* the provider gave none it is max(1, number of normalized speakers).
C9_ParticipantCount ==
  Returned =>
    LET n == Get(normalized.v, "participantCount")
        speakers == Get(Get(normalized.v, "speakerAnalysis"), "speakers").v
    IN /\ n.k = "number" /\ n.v >= 1
       /\ (outcome.v.k = "object" /\ "participantCount" \notin DOMAIN outcome.v.v)
            => n = Num(Max(1, Len(speakers)))

\* the raw analysis is an object without field f
Lacks(raw, f) == raw.k = "object" /\ f \notin DOMAIN raw.v

\* C10: a raw object without actionItems is not an error of the
\* actionItems statement and yields an empty actionItems list; without
\* keyPoints, decisions or nextSteps those are empty lists; without summary
\* the summary is the canned non-empty string; without duration it is 45;
\* without overallSentiment it is "neutral".
C10_DefaultFilling ==
  (pc = "done" /\ outcome.k = "resolved") =>
    LET raw == outcome.v
    IN /\ (Lacks(raw, "actionItems") /\ normalized.k = "rejected")
            => normalized.at # "actionItems"
       /\ normalized.k = "resolved" =>
            /\ Lacks(raw, "actionItems") => Get(normalized.v, "actionItems") = Arr(<<>>)
            /\ Lacks(raw, "keyPoints") => Get(normalized.v, "keyPoints") = Arr(<<>>)
            /\ Lacks(raw, "decisions") => Get(normalized.v, "decisions") = Arr(<<>>)
            /\ Lacks(raw, "nextSteps") => Get(normalized.v, "nextSteps") = Arr(<<>>)
            /\ Lacks(raw, "summary") =>
                 /\ Get(normalized.v, "summary") = Str("Meeting analysis completed.")
                 /\ Truthy(Get(normalized.v, "summary"))
            /\ Lacks(raw, "duration") => Get(normalized.v, "duration") = Num(45)
            /\ Lacks(raw, "overallSentiment") =>
                 Get(normalized.v, "overallSentiment") = Str("neutral")

\* the provider returned {} and every default was filled in
C10_Witness ==
  /\ Returned
  /\ outcome.v = EmptyObj
  /\ Get(normalized.v, "actionItems") = Arr(<<>>)
  /\ Get(normalized.v, "duration") = Num(45)

(***************************************************************************)
(* Properties of the meeting records.                                      *)
(***************************************************************************)
Status(i) == meetings[i].processingStatus.v
NoAnalysis(m) == \A f \in AnalysisFields : m[f] = Null
FullAnalysis(m) == \A f \in AnalysisFields : ~IsNullish(m[f])

\* C11: no meeting record ever holds a partly filled analysis: a completed
\* record has every analysis field set, and a pending, processing or failed
\* record has every analysis field unset (so the fields are written by the
\* one update that sets "completed").
C11_NoPartialAnalysis ==
  \A i \in DOMAIN meetings :
    \/ Status(i) = "completed" /\ FullAnalysis(meetings[i])
    \/ Status(i) \in {"pending", "processing", "failed"} /\ NoAnalysis(meetings[i])

C11_Witness ==
  /\ Len(meetings) = 2
  /\ Status(1) = "completed" /\ FullAnalysis(meetings[1])
  /\ Status(2) = "processing" /\ pc = "done" /\ normalized.k = "resolved"

\* C12: when analyzeMeetingTranscript rejects, the step processTranscriptAsync
\* takes next leaves the meeting "failed" with no analysis field written;
\* and a failed record is never touched again nor processed again.
C12_FailureMarksFailed ==
  [][/\ (pc = "done" /\ pc' # "done" /\ current # 0 /\ normalized.k = "rejected")
        => /\ meetings'[current].processingStatus = Str("failed")
           /\ NoAnalysis(meetings'[current])
     /\ \A i \in DOMAIN meetings :
          Status(i) = "failed" => meetings'[i] = meetings[i] /\ current' # i]_vars

C12_Witness ==
  /\ Len(meetings) = 2
  /\ Status(1) = "failed" /\ NoAnalysis(meetings[1])
  /\ current = 2 /\ pc = "analyzing"

\* C13: a remote provider whose analyze never returns does not hold the
\* ladder for ever: the call in flight is eventually over, and a meeting
\* that is "processing" eventually is "completed" or "failed".
C13_HungProviderTimesOut ==
  /\ \A i \in 1..(Len(Providers) - 1) :
       (pc = "analyzing" /\ idx = i) ~> ~(pc = "analyzing" /\ idx = i)
  /\ \A m \in 1..MaxMeetings :
       (m \in DOMAIN meetings /\ Status(m) = "processing")
         ~> (m \in DOMAIN meetings /\ Status(m) \in {"completed", "failed"})

(***************************************************************************)
(* Properties of the availability checks.                                  *)
(***************************************************************************)
HasCredential(p) ==
  CASE p = "Groq" -> env.GROQ_API_KEY
    [] p = "OpenAI" -> env.OPENAI_API_KEY
    [] p = "Local" -> TRUE

\* C14: getAvailableProvider answers with the first provider, in the order
\* Groq, OpenAI, Local, that is available, and with Local when none is: the
\* answer is a function of the configured credentials.
C14_FirstAvailable ==
  aiStatus # None =>
    \E i \in ProviderIds :
      /\ aiStatus.currentProvider = Providers[i]
      /\ \A j \in 1..(i - 1) : ~HasCredential(Providers[j])
      /\ HasCredential(Providers[i]) \/ i = Len(Providers)
      /\ aiStatus.status = (IF i = Len(Providers) THEN "limited" ELSE "full")

C14_Witness ==
  /\ aiStatus # None /\ aiStatus.currentProvider = "OpenAI"
  /\ ~env.GROQ_API_KEY /\ pc = "analyzing"

\* C15: a step of /api/ai-status (getAvailableProvider and the isAvailable
\* calls in it) invokes no analyze and sends no network request, nor does
\* an isAvailable that answers no; and isAvailable answers yes exactly for
\* a provider whose credential is configured, and always for Local.
C15_AvailabilityIsPassive ==
  [][/\ aiStatus' # aiStatus
        => UNCHANGED <<pc, idx, calls, failed, outcome, requests, reply>>
     /\ \A i \in ProviderIds :
          avail'[i] # avail[i] /\ avail'[i] # "unasked"
            => /\ avail'[i] = "yes" <=> HasCredential(Providers[i])
               /\ avail'[i] = "no" => UNCHANGED <<calls, requests>>
               /\ requests' - requests <= AnalyzeRequests(Providers[i])]_vars

C15_Witness ==
  /\ aiStatus # None /\ aiStatus.currentProvider = "Groq"
  /\ pc = "analyzing" /\ idx = 1 /\ requests = 1 /\ Len(meetings) = 2

\* C16: inside one analyzeContent call, analyze has been invoked only on
\* providers for which isAvailable answered yes in that call; a provider
\* that answered no was passed over: not invoked, not counted as failed.
C16_AnalyzeOnlyIfAvailable ==
  \A i \in ProviderIds :
    /\ calls[i] > 0 => avail[i] = "yes"
    /\ avail[i] = "no" => calls[i] = 0 /\ i \notin failed
    /\ avail[i] = "unasked" => calls[i] = 0

C16_Witness ==
  /\ avail = <<"no", "yes", "yes">>
  /\ calls = <<0, 1, 1>> /\ failed = {2} /\ pc = "settled"

(***************************************************************************)
(* Properties of the remote adapters.                                      *)
(***************************************************************************)
\* the reply that arrived last came from provider i with a 2xx status
OkReplyFrom(i) == reply # None /\ reply.by = i /\ reply.r.k = "ok"

\* C17: on every non-empty content of a 2xx reply the JSON recovery of
\* GroqProvider.analyze does not throw (Groq is not counted as failed and
\* analyzeContent resolves with its result), and what it returns is an
\* object the normalizer consumes without throwing.
C17_GroqRecoveryTotal ==
  OkReplyFrom(1) /\ HasContent(reply.r.content) =>
    /\ 1 \notin failed
    /\ outcome.k = "resolved" /\ outcome.by = 1
    /\ outcome.v.k = "object"
    /\ Normalize(outcome.v).k = "ok"

\* C18: for Groq and OpenAI alike, a 2xx reply whose content is a text
\* that is no valid JSON is not an error: analyze resolves and the
\* provider is not counted as failed.
C18_MalformedOutputAbsorbed ==
  \A i \in 1..(Len(Providers) - 1) :
    (/\ OkReplyFrom(i)
     /\ IsText(reply.r.content) /\ HasContent(reply.r.content)
     /\ ~JsonParse(reply.r.content.v).ok)
      => /\ i \notin failed
         /\ outcome.k = "resolved" /\ outcome.by = i

\* C19: a valid JSON object text J wrapped in prose without braces of its
\* own is recovered by Groq's ladder to the object the bare J is
\* recovered to.
C19_RecoveryIdempotent ==
  \A pre \in ProseBefore, j \in JsonTexts, post \in ProseAfter :
    OkReplyFrom(1) /\ reply.r.content = Text(pre \o j \o post)
      => outcome = Resolved(1, GroqRecover(Text(j)).v)

(***************************************************************************)
(* Properties of the local analyzer.                                       *)
(***************************************************************************)
\* C20: LocalProvider.analyze gives the same transcript the same output
\* whatever calls came in between: the result of the latest call equals the
\* result of any earlier call on the same transcript, and the result a
\* process that never ran analyze before gives.
C20_LocalDeterminism ==
  outcome # None =>
    /\ outcome.v = LocalAnalyzeAfter(content, NoRegExp)
    /\ earlier # None /\ earlier.content = content => earlier.v = outcome.v

C20_Witness ==
  /\ earlier # None /\ outcome # None
  /\ earlier.content = <<"action">> /\ content = <<"action">>
  /\ lastIndex.action = 6
  /\ outcome.v.v.actionItems = Arr(<<Str("action")>>)
  /\ earlier.v = outcome.v

(***************************************************************************)
(* Properties of the provider loop.                                        *)
(***************************************************************************)
\* the providers whose analyze was invoked in this call and has not settled
InFlight ==
  {i \in ProviderIds : /\ calls[i] > 0 /\ i \notin failed
                       /\ ~(outcome.k = "resolved" /\ outcome.by = i)}

\* C21: within one call of analyzeContent every invocation of analyze is
\* the first of its provider, comes from the provider the loop is at, and
\* starts when every provider invoked before it is earlier in the list and
\* has failed (a quota error included); at most one invocation is in flight.
C21_SequentialInOrder ==
  [][/\ \A i \in ProviderIds :
          calls'[i] > calls[i] =>
            /\ calls[i] = 0 /\ calls'[i] = 1
            /\ i = idx
            /\ \A j \in ProviderIds : calls[j] > 0 => j < i /\ j \in failed
     /\ Cardinality(InFlight') <= 1]_vars

\* Local's analyze is in flight after Groq and OpenAI were invoked and failed
C21_Witness ==
  /\ pc = "analyzing" /\ idx = 3
  /\ calls = <<1, 1, 1>>
  /\ failed = {1, 2}

(***************************************************************************)
(* Properties of the local analyzer's extraction and estimates.            *)
(***************************************************************************)
\* the lines of c that hold a keyword, in transcript order
MatchingLines(keywords, c) ==
  SelectSeq(SplitLines(c), LAMBDA line : \E j \in 1..Len(line) : line[j] \in keywords)

\* the result analyzeContent resolved with is LocalProvider's
LocalAnswered == outcome.k = "resolved" /\ outcome.by = 3

\* C22: LocalProvider's actionItems are the first five of all the lines
\* that hold an action keyword, in order, and its decisions, when a line
\* holds a decision keyword, the first five of all those lines.
C22_LocalItemsComplete ==
  LocalAnswered =>
    /\ Get(outcome.v, "actionItems")
         = Arr(FirstFiveTrimmed(MatchingLines(ActionKeywords, content)))
    /\ MatchingLines(DecisionKeywords, content) # <<>> =>
         Get(outcome.v, "decisions")
           = Arr(FirstFiveTrimmed(MatchingLines(DecisionKeywords, content)))

(***************************************************************************)
(* Properties of the processing status.                                    *)
(***************************************************************************)
\* the changes of processingStatus the life of a meeting allows
StatusSteps ==
  {<<"pending", "processing">>, <<"processing", "completed">>, <<"processing", "failed">>}

\* C23: a meeting is created "pending"; its status changes only from
\* pending to processing and from processing to completed or failed;
\* "completed" is written only when analyzeMeetingTranscript has resolved;
\* a completed or failed status never changes.
C23_StatusProgression ==
  [][/\ \A i \in DOMAIN meetings' \ DOMAIN meetings :
          meetings'[i].processingStatus = Str("pending")
     /\ \A i \in DOMAIN meetings :
          /\ i \in DOMAIN meetings'
          /\ meetings'[i].processingStatus # meetings[i].processingStatus =>
               /\ <<Status(i), meetings'[i].processingStatus.v>> \in StatusSteps
               /\ meetings'[i].processingStatus = Str("completed") =>
                    i = current /\ pc = "done" /\ normalized.k = "resolved"]_vars

\* one meeting went all the way to completed, the other one to failed
C23_Witness ==
  /\ Len(meetings) = 2
  /\ {Status(1), Status(2)} = {"completed", "failed"}
  /\ current = 0

\* the whitespace-separated tokens of a transcript
TokenCount(c) == Cardinality({i \in 1..Len(c) : c[i] # NL})

\* C27: LocalProvider's overallSentiment is "positive" exactly when its
\* positive count exceeds its negative count by more than 2, "negative"
\* exactly when the negative count exceeds the positive count by more than
\* 2, and "neutral" otherwise; the counts are the occurrences of the
\* positive and negative words in the transcript.
C27_SentimentClassification ==
  LocalAnswered =>
    LET positiveCount == Cardinality({i \in 1..Len(content) : content[i] \in PositiveWords})
        negativeCount == Cardinality({i \in 1..Len(content) : content[i] \in NegativeWords})
        label == Get(outcome.v, "overallSentiment").v
    IN /\ label \in {"positive", "negative", "neutral"}
       /\ label = "positive" <=> positiveCount > negativeCount + 2
       /\ label = "negative" <=> negativeCount > positiveCount + 2
       /\ Get(Get(outcome.v, "sentimentAnalysis"), "overall") = Str(label)

\* three positive words and no negative one: classified positive
C27_Witness ==
  /\ LocalAnswered
  /\ content = <<"good", "good", "good">>
  /\ Get(outcome.v, "overallSentiment") = Str("positive")

\* C28: LocalProvider's duration is ceil(wordCount / 150) and its
\* participantCount max(1, ceil(wordCount / 500)), wordCount being the
\* number of whitespace-separated tokens of the transcript, for the empty
\* transcript and for transcripts that begin or end with a line break too.
C28_LocalEstimates ==
  LocalAnswered =>
    /\ Get(outcome.v, "duration") = Num(CeilDiv(TokenCount(content), 150))
    /\ Get(outcome.v, "participantCount") = Num(Max(1, CeilDiv(TokenCount(content), 500)))

(***************************************************************************)
(* Properties of the normalized analysis.                                  *)
(***************************************************************************)
\* C26: in every analysis the normalizer returns, overallSentiment is
\* positive, neutral or negative, and every action item has a priority of
\* high, medium or low and the status pending.
C26_EnumsHold ==
  Returned =>
    /\ Get(normalized.v, "overallSentiment")
         \in {Str("positive"), Str("neutral"), Str("negative")}
    /\ LET items == Get(normalized.v, "actionItems").v
       IN \A i \in 1..Len(items) :
            /\ Get(items[i], "priority") \in {Str("high"), Str("medium"), Str("low")}
            /\ Get(items[i], "status") = Str("pending")

(***************************************************************************)
(* Properties of the order of the recovery stages.                         *)
(***************************************************************************)
\* one of the four fields of the third stage can be extracted from t
Extractable(t) ==
  \/ MatchString(t, "summary").found
  \/ \E key \in {"keyPoints", "decisions", "actionItems"} : MatchList(t, key).found

\* C25: on a non-empty text Groq returns the direct parse when it succeeds;
\* else the parse of the trimmed and comma-stripped text when that
\* succeeds; else the object of the extracted fields when a field can be
\* extracted; and else, as on a content nothing can be read from, the
\* hardcoded fallback: empty lists, "neutral", overall 50.
C25_LadderOrder ==
  (OkReplyFrom(1) /\ HasContent(reply.r.content)) =>
    /\ outcome.k = "resolved" /\ outcome.by = 1
    /\ IF ~IsText(reply.r.content) THEN outcome.v = FinalFallback
       ELSE LET t == reply.r.content.v
            IN IF JsonParse(t).ok THEN outcome.v = JsonParse(t).v
               ELSE IF JsonParse(CleanContent(t)).ok
                    THEN outcome.v = JsonParse(CleanContent(t)).v
               ELSE IF Extractable(t) THEN outcome.v = ManualParse(t)
               ELSE /\ outcome.v = FinalFallback
                    /\ Get(outcome.v, "overallSentiment") = Str("neutral")
                    /\ Get(Get(outcome.v, "sentimentAnalysis"), "overall") = Num(50)
                    /\ \A f \in {"decisions", "nextSteps", "actionItems"} :
                         Get(outcome.v, f) = Arr(<<>>)

(***************************************************************************)
(* The upload routes with their response and their client.  POST           *)
(* /api/meetings/upload and POST /api/meetings/process-link create the     *)
(* meeting, call processTranscriptAsync without awaiting it, and respond.  *)
(* Both files that export `storage` are in the repository: the build has   *)
(* one of them.                                                            *)
(***************************************************************************)
Storages == {"MemStorage", "DatabaseStorage"}

\* { processingStatus: "processing" }
ProcessingUpdate == [processingStatus |-> Str("processing")]

\* processTranscriptAsync(meeting.id, content) runs up to its first await,
\* then res.json({ ..., status: "processing" }).  MemStorage.updateMeeting
\* awaits nothing: the map is written before it returns.  DatabaseStorage
\* awaits a query: the route responds before the database has the UPDATE.
UploadResponds ==
  /\ pc = "created"
  /\ IF storage = "MemStorage"
     THEN /\ meetings' = UpdateMeeting(meetings, current, ProcessingUpdate)
          /\ issued' = None
          /\ pc' = "processing"
     ELSE /\ issued' = [id |-> current, updates |-> ProcessingUpdate]
          /\ pc' = "updating"
          /\ UNCHANGED meetings
  /\ response' = [meetingId |-> current, status |-> "processing"]
  /\ observed' = "unread"
  /\ UNCHANGED <<env, contract, content, idx, calls, failed, outcome, normalized,
                 avail, requests, reply>>
  /\ UNCHANGED <<current, aiStatus, earlier, lastIndex>>
  /\ UNCHANGED <<storage, users, reg, providers, loops>>

\* the database executes the UPDATE of DatabaseStorage.updateMeeting, and
\* processTranscriptAsync resumes
DatabaseExecutes ==
  /\ pc = "updating"
  /\ issued # None
  /\ meetings' = UpdateMeeting(meetings, issued.id, issued.updates)
  /\ issued' = None
  /\ pc' = "processing"
  /\ UNCHANGED <<env, contract, content, idx, calls, failed, outcome, normalized,
                 avail, requests, reply>>
  /\ UNCHANGED <<current, aiStatus, earlier, lastIndex>>
  /\ UNCHANGED <<storage, response, observed, users, reg, providers, loops>>

\* the client, holding the response, reads the meeting:
\* GET /api/meetings/:id, storage.getMeeting
ClientReads ==
  /\ response # None
  /\ observed' = meetings[response.meetingId].processingStatus.v
  /\ UNCHANGED <<env, contract, pc, content, idx, calls, failed, outcome, normalized,
                 avail, requests, reply>>
  /\ UNCHANGED outside
  /\ UNCHANGED <<storage, issued, response, users, reg, providers, loops>>

InitUpload ==
  /\ env \in Envs /\ contract = "builtin" /\ InitCall /\ InitProcess
  /\ storage \in Storages
  /\ InitHandlers

NextUpload ==
  \/ CreateMeeting \/ UploadResponds \/ DatabaseExecutes \/ ClientReads
  \/ BeginAnalysis \/ CheckAvailable \/ AnalyzeResolves \/ AnalyzeRejects \/ Resume
  \/ Complete \/ Fail

SpecUpload == InitUpload /\ [][NextUpload]_vars

\* C24: when the response saying "processing" has been sent, the stored
\* status of its meeting is no longer "pending", and what the client reads
\* after the response is never "pending".
C24_RespondedNotPending ==
  response # None =>
    /\ meetings[response.meetingId].processingStatus.v # "pending"
    /\ observed # "pending"


(***************************************************************************)
(* The shared manager.  `const aiManager = new AIProviderManager()` is     *)
(* made once per process, and every analyzeMeetingTranscript calls         *)
(* analyzeContent on it: calls of concurrent uploads interleave at their   *)
(* awaits.  The for..of loop reads this.providers[idx] anew in every       *)
(* iteration.                                                              *)
(***************************************************************************)
\* the variables of the single call and of the meetings
single == <<env, contract, pc, content, idx, calls, failed, outcome, normalized,
            avail, requests, reply>>

\* a catch block that moves the provider that failed to the end of the list
DemoteFailed(list, i) ==
  [j \in 1..Len(list) |->
     IF j < i THEN list[j] ELSE IF j < Len(list) THEN list[j + 1] ELSE list[i]]

\* this.providers after the catch block of analyzeContent: the block logs
\* and continues
ProvidersAfterCatch(list, i) == list

\* the loop of getAvailableProvider over list, from the i-th provider on
RECURSIVE FirstAvailable(_, _)
FirstAvailable(list, i) ==
  IF i > Len(list) THEN list[Len(list)]
  ELSE IF IsAvailable(list[i]) THEN list[i]
  ELSE FirstAvailable(list, i + 1)

\* aiManager.analyzeContent(content) up to its first await
AnalyzeContentStarts(c) ==
  /\ loops[c].pc = "idle"
  /\ loops' = [loops EXCEPT ![c] = [pc |-> "checking", idx |-> 1, tried |-> <<>>,
                                    got |-> @.got]]
  /\ UNCHANGED providers
  /\ UNCHANGED single
  /\ UNCHANGED outside
  /\ UNCHANGED <<storage, issued, response, observed, users, reg>>

\* if (await provider.isAvailable()) { ... provider.analyze(content); past
\* the end of the list the loop is over and analyzeContent throws
LoopChecks(c) ==
  /\ loops[c].pc = "checking"
  /\ LET i == loops[c].idx
     IN loops' = [loops EXCEPT ![c] =
          IF i > Len(providers) THEN [@ EXCEPT !.pc = "threw"]
          ELSE IF IsAvailable(providers[i])
               THEN [@ EXCEPT !.pc = "analyzing", !.tried = Append(@, providers[i])]
               ELSE [@ EXCEPT !.idx = i + 1]]
  /\ UNCHANGED providers
  /\ UNCHANGED single
  /\ UNCHANGED outside
  /\ UNCHANGED <<storage, issued, response, observed, users, reg>>

\* return await provider.analyze(content), analyze resolving
LoopResolves(c) ==
  /\ loops[c].pc = "analyzing"
  /\ loops' = [loops EXCEPT ![c].pc = "returned"]
  /\ UNCHANGED providers
  /\ UNCHANGED single
  /\ UNCHANGED outside
  /\ UNCHANGED <<storage, issued, response, observed, users, reg>>

\* analyze rejecting: the catch block, then continue
LoopRejects(c) ==
  /\ loops[c].pc = "analyzing"
  /\ loops[c].idx <= Len(providers)
  /\ providers[loops[c].idx] # "Local"
  /\ providers' = ProvidersAfterCatch(providers, loops[c].idx)
  /\ loops' = [loops EXCEPT ![c].pc = "checking", ![c].idx = @ + 1]
  /\ UNCHANGED single
  /\ UNCHANGED outside
  /\ UNCHANGED <<storage, issued, response, observed, users, reg>>

\* the caller has the result: the call's frame is gone
AnalyzeContentReturns(c) ==
  /\ loops[c].pc \in {"returned", "threw"}
  /\ loops' = [loops EXCEPT ![c] = [IdleLoop EXCEPT !.got = loops[c].got]]
  /\ UNCHANGED providers
  /\ UNCHANGED single
  /\ UNCHANGED outside
  /\ UNCHANGED <<storage, issued, response, observed, users, reg>>

\* aiManager.getAvailableProvider()
GetAvailableProviderOn(c) ==
  /\ loops[c].pc = "idle"
  /\ loops' = [loops EXCEPT ![c].got = FirstAvailable(providers, 1)]
  /\ UNCHANGED providers
  /\ UNCHANGED single
  /\ UNCHANGED outside
  /\ UNCHANGED <<storage, issued, response, observed, users, reg>>

InitShared == Init

NextShared ==
  \E c \in Calls :
    \/ AnalyzeContentStarts(c) \/ LoopChecks(c) \/ LoopResolves(c) \/ LoopRejects(c)
    \/ AnalyzeContentReturns(c) \/ GetAvailableProviderOn(c)

SpecShared == InitShared /\ [][NextShared]_vars

\* the available providers in the order of construction
AvailableInOrder == SelectSeq(Providers, IsAvailable)

\* C29: the manager's list is the constructed list in the constructed
\* order whatever calls ran or run; every analyzeContent call, with the
\* others interleaved, invokes the available providers from the first one
\* on in that order; and getAvailableProvider answers the first of them.
C29_ProviderListStatic ==
  /\ providers = Providers
  /\ \A c \in Calls :
       /\ Len(loops[c].tried) <= Len(AvailableInOrder)
       /\ loops[c].tried = SubSeq(AvailableInOrder, 1, Len(loops[c].tried))
       /\ loops[c].got \in {"", AvailableInOrder[1]}

\* one call has seen Groq and OpenAI fail and has its result from Local;
\* the other, started meanwhile, is at Groq again, and getAvailableProvider
\* has answered it
C29_Witness ==
  /\ loops[1].pc = "returned"
  /\ loops[1].tried = <<"Groq", "OpenAI", "Local">>
  /\ loops[2].pc = "analyzing"
  /\ loops[2].tried = <<"Groq">>
  /\ loops[2].got = "Groq"


(***************************************************************************)
(* Registration.  POST /api/auth/register looks the username up, then the  *)
(* email, hashes the password and creates the user; every step is an       *)
(* await, so the handlers of concurrent requests interleave there.         *)
(***************************************************************************)
Usernames == {"ann", "bob"}
Emails == {"ann@x.io", "bob@x.io"}

\* a stored user has its username
TakenUsername(u) == \E k \in DOMAIN users : users[k].username = u

\* a stored user has its email
TakenEmail(e) == \E k \in DOMAIN users : users[k].email = e

\* everything but users and reg
unregistered == <<storage, issued, response, observed, providers, loops>>

\* the request arrives: insertUserSchema.parse(req.body), and the call of
\* storage.getUserByUsername
RegisterArrives(r) ==
  /\ reg[r].pc = "idle"
  /\ \E u \in Usernames, e \in Emails :
       reg' = [reg EXCEPT ![r] = [pc |-> "byUsername", username |-> u, email |-> e,
                                  status |-> 0]]
  /\ UNCHANGED users
  /\ UNCHANGED single
  /\ UNCHANGED outside
  /\ UNCHANGED unregistered

\* getUserByUsername answers: a user found ends the request with 400,
\* else storage.getUserByEmail is called, which MemStorage does not have:
\* the TypeError goes to the catch block, 500
UsernameLookedUp(r) ==
  /\ reg[r].pc = "byUsername"
  /\ reg' = [reg EXCEPT ![r] =
       IF TakenUsername(reg[r].username) THEN [@ EXCEPT !.pc = "done", !.status = 400]
       ELSE IF storage = "MemStorage" THEN [@ EXCEPT !.pc = "done", !.status = 500]
       ELSE [@ EXCEPT !.pc = "byEmail"]]
  /\ UNCHANGED users
  /\ UNCHANGED single
  /\ UNCHANGED outside
  /\ UNCHANGED unregistered

\* getUserByEmail answers: a user found ends the request with 400, else
\* hashPassword and the call of storage.createUser
EmailLookedUp(r) ==
  /\ reg[r].pc = "byEmail"
  /\ reg' = [reg EXCEPT ![r] =
       IF TakenEmail(reg[r].email) THEN [@ EXCEPT !.pc = "done", !.status = 400]
       ELSE [@ EXCEPT !.pc = "creating"]]
  /\ UNCHANGED users
  /\ UNCHANGED single
  /\ UNCHANGED outside
  /\ UNCHANGED unregistered

\* createUser answers.  The users table has username and email unique: the
\* INSERT of a taken one fails, createUser rejects, and the catch block
\* answers 500.  Else the user is stored and the answer is 201.
UserCreated(r) ==
  /\ reg[r].pc = "creating"
  /\ IF TakenUsername(reg[r].username) \/ TakenEmail(reg[r].email)
     THEN /\ reg' = [reg EXCEPT ![r].pc = "done", ![r].status = 500]
          /\ UNCHANGED users
     ELSE /\ users' = Append(users, [username |-> reg[r].username, email |-> reg[r].email])
          /\ reg' = [reg EXCEPT ![r].pc = "done", ![r].status = 201]
  /\ UNCHANGED single
  /\ UNCHANGED outside
  /\ UNCHANGED unregistered

\* the response is with the client: the request is over
RegisterEnds(r) ==
  /\ reg[r].pc = "done"
  /\ reg' = [reg EXCEPT ![r] = IdleRequest]
  /\ UNCHANGED users
  /\ UNCHANGED single
  /\ UNCHANGED outside
  /\ UNCHANGED unregistered

InitRegister ==
  /\ env \in Envs /\ contract = "builtin" /\ InitCall /\ InitProcess
  /\ storage \in Storages
  /\ InitHandlers

NextRegister ==
  \E r \in Requests :
    \/ RegisterArrives(r) \/ UsernameLookedUp(r) \/ EmailLookedUp(r)
    \/ UserCreated(r) \/ RegisterEnds(r)

SpecRegister == InitRegister /\ [][NextRegister]_vars

\* C30: no two stored users share a username or an email, whatever the
\* interleaving of the register requests; and a request that is answered
\* while a stored user has its username or its email is answered 400 and
\* stores no user.
C30_UniqueAndRejected ==
  [][/\ \A k, l \in DOMAIN users' :
          k # l => /\ users'[k].username # users'[l].username
                   /\ users'[k].email # users'[l].email
     /\ \A r \in Requests :
          (/\ reg[r].status = 0
           /\ reg'[r].status # 0
           /\ TakenUsername(reg[r].username) \/ TakenEmail(reg[r].email))
          => reg'[r].status = 400 /\ users' = users]_vars


====
